---- MODULE Spec2Model ----
(***************************************************************************)
(* Model of app.py: a Dash dashboard over a CSV of tweets.                 *)
(*                                                                         *)
(* The module-level code (lines 14-40) reads the CSV and derives the       *)
(* per-tweet columns once, at import.  The callback update_graphs          *)
(* (lines 109-198) is run by Dash on page load and on every dropdown       *)
(* change with the current values of the three dropdowns.                  *)
(*                                                                         *)
(* Text is a sequence of characters, each the number of its code point     *)
(* (ord): "#a" is <<35, 97>>.  A timestamp has hour                        *)
(* resolution: a CSV date is a civil date, an hour and a UTC offset in     *)
(* hours; the enriched 'date' is the number of hours since                 *)
(* 1970-01-01 00:00 UTC.  Scores of the sentiment scorer are in            *)
(* hundredths.  Python values that reach a comparison or a truth test      *)
(* carry their type (None, int, str).                                      *)
(***************************************************************************)
EXTENDS Integers, Sequences, FiniteSets

VARIABLES
    csv,          \* the rows of drought_tweet_sentiment.csv as read_csv returns them
    df,           \* the module-level DataFrame: a sequence of enriched rows
    df0,          \* history: df as it was right after enrichment
    enrichments,  \* history: number of times the enrichment code has run
    pc,           \* "import" | "serving" | "crashed"
    plotly6,      \* the installed plotly is 6.0 or later
    selected,     \* current values of the three dropdowns
    out           \* what the last run of update_graphs computed and how it ended

vars == <<csv, df, df0, enrichments, pc, plotly6, selected, out>>

-----------------------------------------------------------------------------
(* Bounds of the model *)

\* largest number of rows of the CSV file
MaxRows == 2

\* longest tweet body drawn from Alphabet
MaxLen == 4

-----------------------------------------------------------------------------
(* Python values *)

PyNone == [t |-> "none", i |-> 0, s |-> ""]
PyInt(n) == [t |-> "int", i |-> n, s |-> ""]
PyStr(x) == [t |-> "str", i |-> 0, s |-> x]

\* truth value of `if v:`: None, 0 and "" are false
Truthy(v) ==
    CASE v.t = "none" -> FALSE
      [] v.t = "int"  -> v.i # 0
      [] v.t = "str"  -> v.s # ""

\* ==, elementwise between a column value and a scalar: values of different
\* types are unequal
PyEq(a, b) == a = b

-----------------------------------------------------------------------------
(* Characters *)

\* A-Z and a-z
Letters == (65..90) \cup (97..122)

\* 0-9
Digits == 48..57

\* The ranges (first, last) of the code points beyond ASCII that str.isalnum
\* holds of, as the Unicode 14.0 tables of CPython 3.11 give them: 730
\* ranges, 133485 code points.
UnicodeAlnum ==
    {<<170, 170>>, <<178, 179>>, <<181, 181>>, <<185, 186>>, <<188, 190>>,
     <<192, 214>>, <<216, 246>>, <<248, 705>>, <<710, 721>>, <<736, 740>>,
     <<748, 748>>, <<750, 750>>, <<880, 884>>, <<886, 887>>, <<890, 893>>,
     <<895, 895>>, <<902, 902>>, <<904, 906>>, <<908, 908>>, <<910, 929>>,
     <<931, 1013>>, <<1015, 1153>>, <<1162, 1327>>, <<1329, 1366>>,
     <<1369, 1369>>, <<1376, 1416>>, <<1488, 1514>>, <<1519, 1522>>,
     <<1568, 1610>>, <<1632, 1641>>, <<1646, 1647>>, <<1649, 1747>>,
     <<1749, 1749>>, <<1765, 1766>>, <<1774, 1788>>, <<1791, 1791>>,
     <<1808, 1808>>, <<1810, 1839>>, <<1869, 1957>>, <<1969, 1969>>,
     <<1984, 2026>>, <<2036, 2037>>, <<2042, 2042>>, <<2048, 2069>>,
     <<2074, 2074>>, <<2084, 2084>>, <<2088, 2088>>, <<2112, 2136>>,
     <<2144, 2154>>, <<2160, 2183>>, <<2185, 2190>>, <<2208, 2249>>,
     <<2308, 2361>>, <<2365, 2365>>, <<2384, 2384>>, <<2392, 2401>>,
     <<2406, 2415>>, <<2417, 2432>>, <<2437, 2444>>, <<2447, 2448>>,
     <<2451, 2472>>, <<2474, 2480>>, <<2482, 2482>>, <<2486, 2489>>,
     <<2493, 2493>>, <<2510, 2510>>, <<2524, 2525>>, <<2527, 2529>>,
     <<2534, 2545>>, <<2548, 2553>>, <<2556, 2556>>, <<2565, 2570>>,
     <<2575, 2576>>, <<2579, 2600>>, <<2602, 2608>>, <<2610, 2611>>,
     <<2613, 2614>>, <<2616, 2617>>, <<2649, 2652>>, <<2654, 2654>>,
     <<2662, 2671>>, <<2674, 2676>>, <<2693, 2701>>, <<2703, 2705>>,
     <<2707, 2728>>, <<2730, 2736>>, <<2738, 2739>>, <<2741, 2745>>,
     <<2749, 2749>>, <<2768, 2768>>, <<2784, 2785>>, <<2790, 2799>>,
     <<2809, 2809>>, <<2821, 2828>>, <<2831, 2832>>, <<2835, 2856>>,
     <<2858, 2864>>, <<2866, 2867>>, <<2869, 2873>>, <<2877, 2877>>,
     <<2908, 2909>>, <<2911, 2913>>, <<2918, 2927>>, <<2929, 2935>>,
     <<2947, 2947>>, <<2949, 2954>>, <<2958, 2960>>, <<2962, 2965>>,
     <<2969, 2970>>, <<2972, 2972>>, <<2974, 2975>>, <<2979, 2980>>,
     <<2984, 2986>>, <<2990, 3001>>, <<3024, 3024>>, <<3046, 3058>>,
     <<3077, 3084>>, <<3086, 3088>>, <<3090, 3112>>, <<3114, 3129>>,
     <<3133, 3133>>, <<3160, 3162>>, <<3165, 3165>>, <<3168, 3169>>,
     <<3174, 3183>>, <<3192, 3198>>, <<3200, 3200>>, <<3205, 3212>>,
     <<3214, 3216>>, <<3218, 3240>>, <<3242, 3251>>, <<3253, 3257>>,
     <<3261, 3261>>, <<3293, 3294>>, <<3296, 3297>>, <<3302, 3311>>,
     <<3313, 3314>>, <<3332, 3340>>, <<3342, 3344>>, <<3346, 3386>>,
     <<3389, 3389>>, <<3406, 3406>>, <<3412, 3414>>, <<3416, 3425>>,
     <<3430, 3448>>, <<3450, 3455>>, <<3461, 3478>>, <<3482, 3505>>,
     <<3507, 3515>>, <<3517, 3517>>, <<3520, 3526>>, <<3558, 3567>>,
     <<3585, 3632>>, <<3634, 3635>>, <<3648, 3654>>, <<3664, 3673>>,
     <<3713, 3714>>, <<3716, 3716>>, <<3718, 3722>>, <<3724, 3747>>,
     <<3749, 3749>>, <<3751, 3760>>, <<3762, 3763>>, <<3773, 3773>>,
     <<3776, 3780>>, <<3782, 3782>>, <<3792, 3801>>, <<3804, 3807>>,
     <<3840, 3840>>, <<3872, 3891>>, <<3904, 3911>>, <<3913, 3948>>,
     <<3976, 3980>>, <<4096, 4138>>, <<4159, 4169>>, <<4176, 4181>>,
     <<4186, 4189>>, <<4193, 4193>>, <<4197, 4198>>, <<4206, 4208>>,
     <<4213, 4225>>, <<4238, 4238>>, <<4240, 4249>>, <<4256, 4293>>,
     <<4295, 4295>>, <<4301, 4301>>, <<4304, 4346>>, <<4348, 4680>>,
     <<4682, 4685>>, <<4688, 4694>>, <<4696, 4696>>, <<4698, 4701>>,
     <<4704, 4744>>, <<4746, 4749>>, <<4752, 4784>>, <<4786, 4789>>,
     <<4792, 4798>>, <<4800, 4800>>, <<4802, 4805>>, <<4808, 4822>>,
     <<4824, 4880>>, <<4882, 4885>>, <<4888, 4954>>, <<4969, 4988>>,
     <<4992, 5007>>, <<5024, 5109>>, <<5112, 5117>>, <<5121, 5740>>,
     <<5743, 5759>>, <<5761, 5786>>, <<5792, 5866>>, <<5870, 5880>>,
     <<5888, 5905>>, <<5919, 5937>>, <<5952, 5969>>, <<5984, 5996>>,
     <<5998, 6000>>, <<6016, 6067>>, <<6103, 6103>>, <<6108, 6108>>,
     <<6112, 6121>>, <<6128, 6137>>, <<6160, 6169>>, <<6176, 6264>>,
     <<6272, 6276>>, <<6279, 6312>>, <<6314, 6314>>, <<6320, 6389>>,
     <<6400, 6430>>, <<6470, 6509>>, <<6512, 6516>>, <<6528, 6571>>,
     <<6576, 6601>>, <<6608, 6618>>, <<6656, 6678>>, <<6688, 6740>>,
     <<6784, 6793>>, <<6800, 6809>>, <<6823, 6823>>, <<6917, 6963>>,
     <<6981, 6988>>, <<6992, 7001>>, <<7043, 7072>>, <<7086, 7141>>,
     <<7168, 7203>>, <<7232, 7241>>, <<7245, 7293>>, <<7296, 7304>>,
     <<7312, 7354>>, <<7357, 7359>>, <<7401, 7404>>, <<7406, 7411>>,
     <<7413, 7414>>, <<7418, 7418>>, <<7424, 7615>>, <<7680, 7957>>,
     <<7960, 7965>>, <<7968, 8005>>, <<8008, 8013>>, <<8016, 8023>>,
     <<8025, 8025>>, <<8027, 8027>>, <<8029, 8029>>, <<8031, 8061>>,
     <<8064, 8116>>, <<8118, 8124>>, <<8126, 8126>>, <<8130, 8132>>,
     <<8134, 8140>>, <<8144, 8147>>, <<8150, 8155>>, <<8160, 8172>>,
     <<8178, 8180>>, <<8182, 8188>>, <<8304, 8305>>, <<8308, 8313>>,
     <<8319, 8329>>, <<8336, 8348>>, <<8450, 8450>>, <<8455, 8455>>,
     <<8458, 8467>>, <<8469, 8469>>, <<8473, 8477>>, <<8484, 8484>>,
     <<8486, 8486>>, <<8488, 8488>>, <<8490, 8493>>, <<8495, 8505>>,
     <<8508, 8511>>, <<8517, 8521>>, <<8526, 8526>>, <<8528, 8585>>,
     <<9312, 9371>>, <<9450, 9471>>, <<10102, 10131>>, <<11264, 11492>>,
     <<11499, 11502>>, <<11506, 11507>>, <<11517, 11517>>, <<11520, 11557>>,
     <<11559, 11559>>, <<11565, 11565>>, <<11568, 11623>>, <<11631, 11631>>,
     <<11648, 11670>>, <<11680, 11686>>, <<11688, 11694>>, <<11696, 11702>>,
     <<11704, 11710>>, <<11712, 11718>>, <<11720, 11726>>, <<11728, 11734>>,
     <<11736, 11742>>, <<11823, 11823>>, <<12293, 12295>>, <<12321, 12329>>,
     <<12337, 12341>>, <<12344, 12348>>, <<12353, 12438>>, <<12445, 12447>>,
     <<12449, 12538>>, <<12540, 12543>>, <<12549, 12591>>, <<12593, 12686>>,
     <<12690, 12693>>, <<12704, 12735>>, <<12784, 12799>>, <<12832, 12841>>,
     <<12872, 12879>>, <<12881, 12895>>, <<12928, 12937>>, <<12977, 12991>>,
     <<13312, 19903>>, <<19968, 42124>>, <<42192, 42237>>, <<42240, 42508>>,
     <<42512, 42539>>, <<42560, 42606>>, <<42623, 42653>>, <<42656, 42735>>,
     <<42775, 42783>>, <<42786, 42888>>, <<42891, 42954>>, <<42960, 42961>>,
     <<42963, 42963>>, <<42965, 42969>>, <<42994, 43009>>, <<43011, 43013>>,
     <<43015, 43018>>, <<43020, 43042>>, <<43056, 43061>>, <<43072, 43123>>,
     <<43138, 43187>>, <<43216, 43225>>, <<43250, 43255>>, <<43259, 43259>>,
     <<43261, 43262>>, <<43264, 43301>>, <<43312, 43334>>, <<43360, 43388>>,
     <<43396, 43442>>, <<43471, 43481>>, <<43488, 43492>>, <<43494, 43518>>,
     <<43520, 43560>>, <<43584, 43586>>, <<43588, 43595>>, <<43600, 43609>>,
     <<43616, 43638>>, <<43642, 43642>>, <<43646, 43695>>, <<43697, 43697>>,
     <<43701, 43702>>, <<43705, 43709>>, <<43712, 43712>>, <<43714, 43714>>,
     <<43739, 43741>>, <<43744, 43754>>, <<43762, 43764>>, <<43777, 43782>>,
     <<43785, 43790>>, <<43793, 43798>>, <<43808, 43814>>, <<43816, 43822>>,
     <<43824, 43866>>, <<43868, 43881>>, <<43888, 44002>>, <<44016, 44025>>,
     <<44032, 55203>>, <<55216, 55238>>, <<55243, 55291>>, <<63744, 64109>>,
     <<64112, 64217>>, <<64256, 64262>>, <<64275, 64279>>, <<64285, 64285>>,
     <<64287, 64296>>, <<64298, 64310>>, <<64312, 64316>>, <<64318, 64318>>,
     <<64320, 64321>>, <<64323, 64324>>, <<64326, 64433>>, <<64467, 64829>>,
     <<64848, 64911>>, <<64914, 64967>>, <<65008, 65019>>, <<65136, 65140>>,
     <<65142, 65276>>, <<65296, 65305>>, <<65313, 65338>>, <<65345, 65370>>,
     <<65382, 65470>>, <<65474, 65479>>, <<65482, 65487>>, <<65490, 65495>>,
     <<65498, 65500>>, <<65536, 65547>>, <<65549, 65574>>, <<65576, 65594>>,
     <<65596, 65597>>, <<65599, 65613>>, <<65616, 65629>>, <<65664, 65786>>,
     <<65799, 65843>>, <<65856, 65912>>, <<65930, 65931>>, <<66176, 66204>>,
     <<66208, 66256>>, <<66273, 66299>>, <<66304, 66339>>, <<66349, 66378>>,
     <<66384, 66421>>, <<66432, 66461>>, <<66464, 66499>>, <<66504, 66511>>,
     <<66513, 66517>>, <<66560, 66717>>, <<66720, 66729>>, <<66736, 66771>>,
     <<66776, 66811>>, <<66816, 66855>>, <<66864, 66915>>, <<66928, 66938>>,
     <<66940, 66954>>, <<66956, 66962>>, <<66964, 66965>>, <<66967, 66977>>,
     <<66979, 66993>>, <<66995, 67001>>, <<67003, 67004>>, <<67072, 67382>>,
     <<67392, 67413>>, <<67424, 67431>>, <<67456, 67461>>, <<67463, 67504>>,
     <<67506, 67514>>, <<67584, 67589>>, <<67592, 67592>>, <<67594, 67637>>,
     <<67639, 67640>>, <<67644, 67644>>, <<67647, 67669>>, <<67672, 67702>>,
     <<67705, 67742>>, <<67751, 67759>>, <<67808, 67826>>, <<67828, 67829>>,
     <<67835, 67867>>, <<67872, 67897>>, <<67968, 68023>>, <<68028, 68047>>,
     <<68050, 68096>>, <<68112, 68115>>, <<68117, 68119>>, <<68121, 68149>>,
     <<68160, 68168>>, <<68192, 68222>>, <<68224, 68255>>, <<68288, 68295>>,
     <<68297, 68324>>, <<68331, 68335>>, <<68352, 68405>>, <<68416, 68437>>,
     <<68440, 68466>>, <<68472, 68497>>, <<68521, 68527>>, <<68608, 68680>>,
     <<68736, 68786>>, <<68800, 68850>>, <<68858, 68899>>, <<68912, 68921>>,
     <<69216, 69246>>, <<69248, 69289>>, <<69296, 69297>>, <<69376, 69415>>,
     <<69424, 69445>>, <<69457, 69460>>, <<69488, 69505>>, <<69552, 69579>>,
     <<69600, 69622>>, <<69635, 69687>>, <<69714, 69743>>, <<69745, 69746>>,
     <<69749, 69749>>, <<69763, 69807>>, <<69840, 69864>>, <<69872, 69881>>,
     <<69891, 69926>>, <<69942, 69951>>, <<69956, 69956>>, <<69959, 69959>>,
     <<69968, 70002>>, <<70006, 70006>>, <<70019, 70066>>, <<70081, 70084>>,
     <<70096, 70106>>, <<70108, 70108>>, <<70113, 70132>>, <<70144, 70161>>,
     <<70163, 70187>>, <<70272, 70278>>, <<70280, 70280>>, <<70282, 70285>>,
     <<70287, 70301>>, <<70303, 70312>>, <<70320, 70366>>, <<70384, 70393>>,
     <<70405, 70412>>, <<70415, 70416>>, <<70419, 70440>>, <<70442, 70448>>,
     <<70450, 70451>>, <<70453, 70457>>, <<70461, 70461>>, <<70480, 70480>>,
     <<70493, 70497>>, <<70656, 70708>>, <<70727, 70730>>, <<70736, 70745>>,
     <<70751, 70753>>, <<70784, 70831>>, <<70852, 70853>>, <<70855, 70855>>,
     <<70864, 70873>>, <<71040, 71086>>, <<71128, 71131>>, <<71168, 71215>>,
     <<71236, 71236>>, <<71248, 71257>>, <<71296, 71338>>, <<71352, 71352>>,
     <<71360, 71369>>, <<71424, 71450>>, <<71472, 71483>>, <<71488, 71494>>,
     <<71680, 71723>>, <<71840, 71922>>, <<71935, 71942>>, <<71945, 71945>>,
     <<71948, 71955>>, <<71957, 71958>>, <<71960, 71983>>, <<71999, 71999>>,
     <<72001, 72001>>, <<72016, 72025>>, <<72096, 72103>>, <<72106, 72144>>,
     <<72161, 72161>>, <<72163, 72163>>, <<72192, 72192>>, <<72203, 72242>>,
     <<72250, 72250>>, <<72272, 72272>>, <<72284, 72329>>, <<72349, 72349>>,
     <<72368, 72440>>, <<72704, 72712>>, <<72714, 72750>>, <<72768, 72768>>,
     <<72784, 72812>>, <<72818, 72847>>, <<72960, 72966>>, <<72968, 72969>>,
     <<72971, 73008>>, <<73030, 73030>>, <<73040, 73049>>, <<73056, 73061>>,
     <<73063, 73064>>, <<73066, 73097>>, <<73112, 73112>>, <<73120, 73129>>,
     <<73440, 73458>>, <<73648, 73648>>, <<73664, 73684>>, <<73728, 74649>>,
     <<74752, 74862>>, <<74880, 75075>>, <<77712, 77808>>, <<77824, 78894>>,
     <<82944, 83526>>, <<92160, 92728>>, <<92736, 92766>>, <<92768, 92777>>,
     <<92784, 92862>>, <<92864, 92873>>, <<92880, 92909>>, <<92928, 92975>>,
     <<92992, 92995>>, <<93008, 93017>>, <<93019, 93025>>, <<93027, 93047>>,
     <<93053, 93071>>, <<93760, 93846>>, <<93952, 94026>>, <<94032, 94032>>,
     <<94099, 94111>>, <<94176, 94177>>, <<94179, 94179>>, <<94208, 100343>>,
     <<100352, 101589>>, <<101632, 101640>>, <<110576, 110579>>,
     <<110581, 110587>>, <<110589, 110590>>, <<110592, 110882>>,
     <<110928, 110930>>, <<110948, 110951>>, <<110960, 111355>>,
     <<113664, 113770>>, <<113776, 113788>>, <<113792, 113800>>,
     <<113808, 113817>>, <<119520, 119539>>, <<119648, 119672>>,
     <<119808, 119892>>, <<119894, 119964>>, <<119966, 119967>>,
     <<119970, 119970>>, <<119973, 119974>>, <<119977, 119980>>,
     <<119982, 119993>>, <<119995, 119995>>, <<119997, 120003>>,
     <<120005, 120069>>, <<120071, 120074>>, <<120077, 120084>>,
     <<120086, 120092>>, <<120094, 120121>>, <<120123, 120126>>,
     <<120128, 120132>>, <<120134, 120134>>, <<120138, 120144>>,
     <<120146, 120485>>, <<120488, 120512>>, <<120514, 120538>>,
     <<120540, 120570>>, <<120572, 120596>>, <<120598, 120628>>,
     <<120630, 120654>>, <<120656, 120686>>, <<120688, 120712>>,
     <<120714, 120744>>, <<120746, 120770>>, <<120772, 120779>>,
     <<120782, 120831>>, <<122624, 122654>>, <<123136, 123180>>,
     <<123191, 123197>>, <<123200, 123209>>, <<123214, 123214>>,
     <<123536, 123565>>, <<123584, 123627>>, <<123632, 123641>>,
     <<124896, 124902>>, <<124904, 124907>>, <<124909, 124910>>,
     <<124912, 124926>>, <<124928, 125124>>, <<125127, 125135>>,
     <<125184, 125251>>, <<125259, 125259>>, <<125264, 125273>>,
     <<126065, 126123>>, <<126125, 126127>>, <<126129, 126132>>,
     <<126209, 126253>>, <<126255, 126269>>, <<126464, 126467>>,
     <<126469, 126495>>, <<126497, 126498>>, <<126500, 126500>>,
     <<126503, 126503>>, <<126505, 126514>>, <<126516, 126519>>,
     <<126521, 126521>>, <<126523, 126523>>, <<126530, 126530>>,
     <<126535, 126535>>, <<126537, 126537>>, <<126539, 126539>>,
     <<126541, 126543>>, <<126545, 126546>>, <<126548, 126548>>,
     <<126551, 126551>>, <<126553, 126553>>, <<126555, 126555>>,
     <<126557, 126557>>, <<126559, 126559>>, <<126561, 126562>>,
     <<126564, 126564>>, <<126567, 126570>>, <<126572, 126578>>,
     <<126580, 126583>>, <<126585, 126588>>, <<126590, 126590>>,
     <<126592, 126601>>, <<126603, 126619>>, <<126625, 126627>>,
     <<126629, 126633>>, <<126635, 126651>>, <<127232, 127244>>,
     <<130032, 130041>>, <<131072, 173791>>, <<173824, 177976>>,
     <<177984, 178205>>, <<178208, 183969>>, <<183984, 191456>>,
     <<194560, 195101>>, <<196608, 201546>>}

\* \w of the re module on a str pattern: the underscore (95) and every
\* character str.isalnum holds of
IsWordChar(c) ==
    IF c < 128 THEN c \in Letters \cup Digits \cup {95}
    ELSE \E r \in UnicodeAlnum : r[1] <= c /\ c <= r[2]

Min(S) == CHOOSE x \in S : \A y \in S : x <= y

\* the whitespace of the C locale: \t, \n, \v, \f, \r and the space
AsciiSpace == (9..13) \cup {32}

\* the characters str.split() treats as separators, those of str.isspace:
\* beyond the C locale's, the separators U+001C-U+001F, U+0085, U+00A0,
\* U+1680, U+2000-U+200A, U+2028, U+2029, U+202F, U+205F and U+3000
UnicodeSpace ==
    AsciiSpace \cup (28..31) \cup {133, 160, 5760} \cup (8192..8202)
        \cup {8232, 8233, 8239, 8287, 12288}

IsSpace(c) == c \in UnicodeSpace

-----------------------------------------------------------------------------
(* Text statistics, lines 26-36 *)

\* end (exclusive) of the longest run of word characters starting at i
RECURSIVE WordRunEnd(_, _)
WordRunEnd(x, i) ==
    IF i <= Len(x) /\ IsWordChar(x[i]) THEN WordRunEnd(x, i + 1) ELSE i

\* re.findall(sigil + r'(\w+)', x): scan left to right; a match at i is the
\* sigil followed by the longest non-empty run of word characters, and the
\* scan resumes after the match; without a match it resumes at i + 1.  The
\* result lists the captured groups.
RECURSIVE FindallFrom(_, _, _)
FindallFrom(sigil, x, i) ==
    IF i > Len(x) THEN <<>>
    ELSE IF x[i] = sigil /\ WordRunEnd(x, i + 1) > i + 1
         THEN <<SubSeq(x, i + 1, WordRunEnd(x, i + 1) - 1)>>
                  \o FindallFrom(sigil, x, WordRunEnd(x, i + 1))
         ELSE FindallFrom(sigil, x, i + 1)

\* a scan whose pattern is sigil + r'(\w*)': a bare sigil matches too
RECURSIVE FindallStarFrom(_, _, _)
FindallStarFrom(sigil, x, i) ==
    IF i > Len(x) THEN <<>>
    ELSE IF x[i] = sigil
         THEN <<SubSeq(x, i + 1, WordRunEnd(x, i + 1) - 1)>>
                  \o FindallStarFrom(sigil, x, WordRunEnd(x, i + 1))
         ELSE FindallStarFrom(sigil, x, i + 1)

findall_star(sigil, x) == FindallStarFrom(sigil, x, 1)

findall(sigil, x) == FindallFrom(sigil, x, 1)

\* end (exclusive) of the longest run of non-separators starting at i
RECURSIVE TokenEnd(_, _)
TokenEnd(x, i) ==
    IF i <= Len(x) /\ ~IsSpace(x[i]) THEN TokenEnd(x, i + 1) ELSE i

\* x.split(): the maximal runs of non-separator characters, in order
RECURSIVE SplitFrom(_, _)
SplitFrom(x, i) ==
    IF i > Len(x) THEN <<>>
    ELSE IF IsSpace(x[i]) THEN SplitFrom(x, i + 1)
    ELSE <<SubSeq(x, i, TokenEnd(x, i) - 1)>> \o SplitFrom(x, TokenEnd(x, i))

\* x.split(' '): cut at every single space, keeping empty pieces
RECURSIVE SplitOnSpaceFrom(_, _, _)
SplitOnSpaceFrom(x, i, start) ==
    IF i > Len(x) THEN <<SubSeq(x, start, Len(x))>>
    ELSE IF x[i] = 32
         THEN <<SubSeq(x, start, i - 1)>> \o SplitOnSpaceFrom(x, i + 1, i + 1)
         ELSE SplitOnSpaceFrom(x, i + 1, start)

split_on_space(x) == SplitOnSpaceFrom(x, 1, 1)

split(x) == SplitFrom(x, 1)

tweet_length(x) == Len(x)
\* the sigils are '#' (35) and '@' (64)
hashtag_count(x) == Len(findall(35, x))
mention_count(x) == Len(findall(64, x))
word_count(x) == Len(split(x))

-----------------------------------------------------------------------------
(* Sentiment, lines 39-40.  TextBlob is an external scorer; it is modelled *)
(* by the part of its lexicon the tweets of the model use: the score of a  *)
(* text is the mean score of its words that the lexicon knows, 0 without   *)
(* such a word.                                                            *)

Lexicon ==
    {\* good
     [word |-> <<103, 111, 111, 100>>, polarity |-> 70, subjectivity |-> 60],
     \* bad
     [word |-> <<98, 97, 100>>, polarity |-> -70, subjectivity |-> 67],
     \* great
     [word |-> <<103, 114, 101, 97, 116>>, polarity |-> 80, subjectivity |-> 75]}

\* the lexicon entries of the tokens of x, one per scored token
RECURSIVE Assessments(_)
Assessments(tokens) ==
    IF tokens = <<>> THEN <<>>
    ELSE LET hit == {e \in Lexicon : e.word = Head(tokens)}
         IN (IF hit = {} THEN <<>> ELSE <<CHOOSE e \in hit : TRUE>>)
                \o Assessments(Tail(tokens))

RECURSIVE SumOf(_, _)
SumOf(s, field) ==
    IF s = <<>> THEN 0 ELSE Head(s)[field] + SumOf(Tail(s), field)

TextBlobPolarity(x) ==
    LET a == Assessments(split(x))
    IN IF a = <<>> THEN 0 ELSE SumOf(a, "polarity") \div Len(a)

TextBlobSubjectivity(x) ==
    LET a == Assessments(split(x))
    IN IF a = <<>> THEN 0 ELSE SumOf(a, "subjectivity") \div Len(a)

-----------------------------------------------------------------------------
(* Timestamps, lines 16-24 *)

\* days from 1970-01-01 to the civil date y-m-d (proleptic Gregorian)
DaysFromCivil(y, m, d) ==
    LET yy  == IF m <= 2 THEN y - 1 ELSE y
        era == yy \div 400
        yoe == yy - era * 400
        mp  == IF m > 2 THEN m - 3 ELSE m + 9
        doy == (153 * mp + 2) \div 5 + d - 1
        doe == yoe * 365 + yoe \div 4 - yoe \div 100 + doy
    IN era * 146097 + doe - 719468

\* the civil date of a day number
CivilFromDays(z) ==
    LET zz  == z + 719468
        era == zz \div 146097
        doe == zz - era * 146097
        yoe == (doe - doe \div 1460 + doe \div 36524 - doe \div 146096) \div 365
        doy == doe - (365 * yoe + yoe \div 4 - yoe \div 100)
        mp  == (5 * doy + 2) \div 153
        d   == doy - (153 * mp + 2) \div 5 + 1
        m   == IF mp < 10 THEN mp + 3 ELSE mp - 9
        y   == yoe + era * 400 + (IF m <= 2 THEN 1 ELSE 0)
    IN [year |-> y, month |-> m, day |-> d]

\* pd.to_datetime(...).dt.tz_convert(None): the instant in UTC, the offset
\* dropped
to_datetime(raw) == DaysFromCivil(raw.y, raw.m, raw.d) * 24 + raw.h - raw.off

\* the calendar day of a timestamp (dt.normalize / dt.date)
CalendarDay(ts) == ts \div 24

dt_month(ts) == CivilFromDays(CalendarDay(ts)).month
dt_year(ts) == CivilFromDays(CalendarDay(ts)).year
\* Monday = 0; 1970-01-01 was a Thursday
dt_dayofweek(ts) == (CalendarDay(ts) + 3) % 7
dt_hour(ts) == ts % 24

days_of_week ==
    <<"Monday", "Tuesday", "Wednesday", "Thursday", "Friday", "Saturday", "Sunday">>

dt_day_name(ts) == days_of_week[dt_dayofweek(ts) + 1]

is_weekend(ts) == IF dt_dayofweek(ts) \in {5, 6} THEN "Weekend" ELSE "Weekday"

-----------------------------------------------------------------------------
(* read_csv, line 14: the value of a cell of the 'tweet' column, as the C   *)
(* parser of pandas 1.2 or later infers it.  The column is parsed as a      *)
(* whole.  An empty cell or one of the default NA strings is NaN.  The      *)
(* other cells are tried as int64, then uint64, then float64, then bool,    *)
(* each try stopping at the first cell it cannot convert; when none takes   *)
(* the column, or the integers fit neither int64 nor uint64, the cells stay *)
(* the str they are.  Two things the source leaves to the build: "None" is  *)
(* an NA string from pandas 2.0 on; an exponent beyond the C int that holds *)
(* it overflows, and the cell may or may not come out a number.             *)

\* what the build decides
PandasBuilds == [none_is_na : BOOLEAN, wide_exponent_in_range : BOOLEAN]

NaValues(build) ==
    {<<>>,
     \* #N/A
     <<35, 78, 47, 65>>,
     \* #N/A N/A
     <<35, 78, 47, 65, 32, 78, 47, 65>>,
     \* #NA
     <<35, 78, 65>>,
     \* -1.#IND
     <<45, 49, 46, 35, 73, 78, 68>>,
     \* -1.#QNAN
     <<45, 49, 46, 35, 81, 78, 65, 78>>,
     \* -NaN
     <<45, 78, 97, 78>>,
     \* -nan
     <<45, 110, 97, 110>>,
     \* 1.#IND
     <<49, 46, 35, 73, 78, 68>>,
     \* 1.#QNAN
     <<49, 46, 35, 81, 78, 65, 78>>,
     \* <NA>
     <<60, 78, 65, 62>>,
     \* N/A
     <<78, 47, 65>>,
     \* NA
     <<78, 65>>,
     \* NULL
     <<78, 85, 76, 76>>,
     \* NaN
     <<78, 97, 78>>,
     \* n/a
     <<110, 47, 97>>,
     \* nan
     <<110, 97, 110>>,
     \* null
     <<110, 117, 108, 108>>}
        \* None
        \cup (IF build.none_is_na THEN {<<78, 111, 110, 101>>} ELSE {})

\* end (exclusive) of the longest run of characters of S starting at i
RECURSIVE RunEnd(_, _, _)
RunEnd(x, i, S) ==
    IF i <= Len(x) /\ x[i] \in S THEN RunEnd(x, i + 1, S) ELSE i

\* tolower of the C locale
ToLower(c) == IF c \in 65..90 THEN c + 32 ELSE c

\* strcasecmp compares the words as LowerCase makes them
LowerCase(x) == [i \in 1..Len(x) |-> ToLower(x[i])]

\* to_boolean: "true" and "false" in any casing
IsBoolWord(x) ==
    LowerCase(x) \in {<<116, 114, 117, 101>>, <<102, 97, 108, 115, 101>>}

DigitValue(c) == c - 48

\* a numeral without its leading zeros
StripZeros(d) == SubSeq(d, RunEnd(d, 1, {48}), Len(d))

\* numerals without leading zeros: a > b
NumeralGreater(a, b) ==
    \/ Len(a) > Len(b)
    \/ /\ Len(a) = Len(b)
       /\ \E k \in 1..Len(a) :
              /\ \A j \in 1..(k - 1) : a[j] = b[j]
              /\ DigitValue(a[k]) > DigitValue(b[k])

\* the value of a numeral that is at most the largest C int
RECURSIVE NumeralValue(_)
NumeralValue(d) ==
    IF d = <<>> THEN 0
    ELSE 10 * NumeralValue(SubSeq(d, 1, Len(d) - 1)) + DigitValue(d[Len(d)])

\* 9223372036854775807
Int64Max ==
    <<57, 50, 50, 51, 51, 55, 50, 48, 51, 54, 56, 53, 52, 55, 55, 53, 56,
      48, 55>>
\* 9223372036854775808
Int64MinMagnitude ==
    <<57, 50, 50, 51, 51, 55, 50, 48, 51, 54, 56, 53, 52, 55, 55, 53, 56,
      48, 56>>
\* 18446744073709551615
Uint64Max ==
    <<49, 56, 52, 52, 54, 55, 52, 52, 48, 55, 51, 55, 48, 57, 53, 53, 49,
      54, 49, 53>>
\* the largest C int, and its numeral
IntMax == 2147483647
IntMaxDigits == <<50, 49, 52, 55, 52, 56, 51, 54, 52, 55>>
\* the first 17 digits of the largest double, 1.7976931348623157e308
DblMaxDigits ==
    <<49, 55, 57, 55, 54, 57, 51, 49, 51, 52, 56, 54, 50, 51, 49, 53, 55>>

Least(a, b) == IF a < b THEN a ELSE b

\* the index after an optional sign, '+' (43) or '-' (45), at a
SignEnd(x, a) == IF a <= Len(x) /\ x[a] \in {43, 45} THEN a + 1 ELSE a

\* nothing but whitespace of the C locale from p on
OnlySpaceFrom(x, p) == RunEnd(x, p, AsciiSpace) = Len(x) + 1

\* the digits i0..p1-1 have been read: they overflow as they are read,
\* before what follows them is looked at.  str_to_uint64 returns at a '-'
\* without an error (sint): it only notes the sign.
IntFromDigits(x, max, sint, i0, p1) ==
    IF sint THEN "ok"
    ELSE IF p1 = i0 THEN "invalid"
    ELSE IF NumeralGreater(StripZeros(SubSeq(x, i0, p1 - 1)), max) THEN "overflow"
    ELSE IF OnlySpaceFrom(x, p1) THEN "ok"
    ELSE "invalid"

\* the sign has been read
IntFromSign(x, unsigned, neg, i0) ==
    IntFromDigits(x,
                  IF unsigned THEN Uint64Max
                  ELSE IF neg THEN Int64MinMagnitude ELSE Int64Max,
                  unsigned /\ neg, i0, RunEnd(x, i0, Digits))

\* a '-' (45) at a
MinusAt(x, a) == a <= Len(x) /\ x[a] = 45

\* leading whitespace has been skipped up to a
IntFromSpace(x, unsigned, a) ==
    IntFromSign(x, unsigned, MinusAt(x, a), SignEnd(x, a))

\* str_to_int64 (unsigned: str_to_uint64) on a cell: "ok", "overflow" or
\* "invalid".  Leading whitespace of the C locale is skipped; a sign; at
\* least one digit; trailing whitespace is skipped and nothing may follow.
IntStatus(x, unsigned) == IntFromSpace(x, unsigned, RunEnd(x, 1, AsciiSpace))

\* what str_to_uint64 notes of a cell it takes: a '-' (seen_sint), a value
\* beyond int64 (seen_uint)
IsSigned(x) == MinusAt(x, RunEnd(x, 1, AsciiSpace))

IsBeyondInt64(x) ==
    ~IsSigned(x) /\ IntStatus(x, TRUE) = "ok" /\ IntStatus(x, FALSE) = "overflow"

\* the end of the fraction whose point (46) would be at p1
FractionEnd(x, p1) ==
    IF p1 <= Len(x) /\ x[p1] = 46 THEN RunEnd(x, p1 + 1, Digits) ELSE p1

\* the number of digits of the fraction between p1 and p2
FractionDigits(p1, p2) == IF p2 > p1 THEN p2 - p1 - 1 ELSE 0

\* the first seventeen digits make the mantissa (here without leading zeros)
FirstDigits(d) == StripZeros(SubSeq(d, 1, Least(Len(d), 17)))

Mantissa(x, i0, p1, p2) ==
    FirstDigits(SubSeq(x, i0, p1 - 1) \o SubSeq(x, p1 + 1, p2 - 1))

\* each integer digit after the seventeenth raises the decimal exponent by
\* one, each fraction digit among the seventeen lowers it by one
DecimalExponent(nInt, nFrac) ==
    (IF nInt > 17 THEN nInt - 17 ELSE 0)
        - (IF nInt >= 17 THEN 0 ELSE Least(nFrac, 17 - nInt))

\* the number is refused (ERANGE) when the exponent exceeds 308 or the
\* scaled mantissa exceeds the largest double, compared on 17 digits
InDoubleRange(mant, exp) ==
    /\ exp <= 308
    /\ Len(mant) + exp <= 309
    /\ Len(mant) + exp = 309 =>
           ~NumeralGreater(mant \o [k \in 1..(17 - Len(mant)) |-> 48],
                           DblMaxDigits)

\* the exponent n is added to (negative: subtracted from) the decimal
\* exponent in a C int; when the result is beyond the int the operation
\* overflows and the build decides
ExponentSumInRange(build, mant, exp0, eNeg, n) ==
    IF \/ ~eNeg /\ exp0 > 0 /\ n > IntMax - exp0
       \/ eNeg /\ exp0 < 0 /\ n - 1 > IntMax + exp0
    THEN build.wide_exponent_in_range
    ELSE InDoubleRange(mant, IF eNeg THEN exp0 - n ELSE exp0 + n)

\* the exponent numeral eNum is accumulated in a C int: beyond the largest
\* int the accumulation overflows and the build decides
ExponentInRange(build, mant, exp0, eNeg, eNum) ==
    IF NumeralGreater(eNum, IntMaxDigits) THEN build.wide_exponent_in_range
    ELSE ExponentSumInRange(build, mant, exp0, eNeg, NumeralValue(eNum))

\* the exponent has eLen digits from q on; with none the 'e' is given back
\* and the cell does not end at the number
FloatFromExponent(x, build, mant, exp0, eNeg, q, eLen) ==
    /\ eLen > 0
    /\ OnlySpaceFrom(x, q + eLen)
    /\ ExponentInRange(build, mant, exp0, eNeg,
                       StripZeros(SubSeq(x, q, q + eLen - 1)))

\* the mantissa ends at p2: an exponent of at most seventeen digits, or the
\* end of the number
FloatFromMantissa(x, build, mant, exp0, p2) ==
    IF p2 <= Len(x) /\ x[p2] \in {101, 69}
    THEN FloatFromExponent(x, build, mant, exp0,
                           MinusAt(x, p2 + 1),
                           SignEnd(x, p2 + 1),
                           Least(RunEnd(x, SignEnd(x, p2 + 1), Digits)
                                     - SignEnd(x, p2 + 1), 17))
    ELSE OnlySpaceFrom(x, p2) /\ InDoubleRange(mant, exp0)

\* integer digits i0..p1-1 and the fraction up to p2: at least one digit
FloatFromDigits(x, build, i0, p1, p2) ==
    /\ (p1 - i0) + FractionDigits(p1, p2) >= 1
    /\ FloatFromMantissa(x, build, Mantissa(x, i0, p1, p2),
                         DecimalExponent(p1 - i0, FractionDigits(p1, p2)), p2)

\* the sign has been read up to i0
FloatFromSign(x, build, i0, p1) ==
    FloatFromDigits(x, build, i0, p1, FractionEnd(x, p1))

\* precise_xstrtod accepts the cell and nothing follows.  Whitespace around
\* the number is skipped; a sign; digits with an optional point, at least
\* one digit; an optional exponent.
IsFloat(x, build) ==
    FloatFromSign(x, build, SignEnd(x, RunEnd(x, 1, AsciiSpace)),
                  RunEnd(x, SignEnd(x, RunEnd(x, 1, AsciiSpace)), Digits))

\* the words _try_double takes for an infinity when the number parser has
\* refused the cell: the whole cell, any casing
IsInfWord(x) ==
    LowerCase(x) \in
        {\* inf, +inf, -inf
         <<105, 110, 102>>, <<43, 105, 110, 102>>, <<45, 105, 110, 102>>,
         \* infinity, +infinity, -infinity
         <<105, 110, 102, 105, 110, 105, 116, 121>>,
         <<43, 105, 110, 102, 105, 110, 105, 116, 121>>,
         <<45, 105, 110, 102, 105, 110, 105, 116, 121>>}

NaN == [kind |-> "nan", text |-> <<>>]
Number(x) == [kind |-> "number", text |-> x]
Bool(x) == [kind |-> "bool", text |-> x]
Str(x) == [kind |-> "str", text |-> x]

\* the status of the first cell, in order, that a conversion does not take
FirstFailing(cells, failing, unsigned) ==
    IF failing = {} THEN "ok" ELSE IntStatus(cells[Min(failing)], unsigned)

FirstFailure(cells, present, unsigned) ==
    FirstFailing(cells, {i \in present : IntStatus(cells[i], unsigned) # "ok"},
                 unsigned)

\* The inference tries int64, then uint64 when int64 overflowed, then
\* float64, then bool.  The uint64 pass leaves the column as str when a cell
\* is beyond uint64 (OverflowError) or when it took every cell and noted a
\* '-'; when it noted a value beyond int64 together with a '-' or an NA
\* cell (ValueError) the column is left as it is in the file, NA cells too.
ColumnKind(int64, uint64, seen_uint, seen_sint, seen_null, float64, boolean) ==
    IF int64 = "ok" THEN "number"
    ELSE IF int64 = "overflow" /\ uint64 = "overflow" THEN "str"
    ELSE IF int64 = "overflow" /\ uint64 = "ok"
         THEN IF seen_uint /\ (seen_sint \/ seen_null) THEN "as is"
              ELSE IF seen_sint THEN "str"
              ELSE "number"
    ELSE IF float64 THEN "number"
    ELSE IF boolean THEN "bool"
    ELSE "str"

TypedCells(cells, present, kind) ==
    [i \in 1..Len(cells) |->
        IF kind = "as is" THEN Str(cells[i])
        ELSE IF i \notin present THEN NaN
        ELSE IF kind = "number" THEN Number(cells[i])
        ELSE IF kind = "bool" THEN Bool(cells[i])
        ELSE Str(cells[i])]

InferredCells(cells, build, present) ==
    TypedCells(cells, present,
               ColumnKind(FirstFailure(cells, present, FALSE),
                          FirstFailure(cells, present, TRUE),
                          \E i \in present : IsBeyondInt64(cells[i]),
                          \E i \in present : IsSigned(cells[i]),
                          present # 1..Len(cells),
                          \A i \in present :
                              IsFloat(cells[i], build) \/ IsInfWord(cells[i]),
                          \A i \in present : IsBoolWord(cells[i])))

\* the cells of the 'tweet' column as read_csv returns them
TweetColumn(cells, build) ==
    InferredCells(cells, build,
                  {i \in 1..Len(cells) : cells[i] \notin NaValues(build)})

\* the column of 'tweet' cells of the file
TweetCells(rows) == [i \in 1..Len(rows) |-> rows[i].tweet]

WithTweetColumn(rows, col) ==
    [i \in 1..Len(rows) |-> [rows[i] EXCEPT !.tweet = col[i]]]

\* the rows of the file with the 'tweet' cells as read_csv returns them
read_csv(rows, build) ==
    WithTweetColumn(rows, TweetColumn(TweetCells(rows), build))

\* Lines 27-40 apply len, re.findall, str.split and TextBlob to every tweet
\* cell; each raises TypeError on a cell that is not a str.
TweetColumnIsStr(rows) == \A i \in 1..Len(rows) : rows[i].tweet.kind = "str"

-----------------------------------------------------------------------------
(* Enrichment, lines 14-40 *)

\* the derived columns of one row; 'date' is replaced by the converted timestamp
EnrichRow(r) ==
    LET ts == to_datetime(r.date)
    IN [date          |-> ts,
        tweet         |-> r.tweet.text,
        country       |-> r.country,
        source        |-> r.source,
        target        |-> r.target,
        month         |-> dt_month(ts),
        year          |-> dt_year(ts),
        day_of_week   |-> dt_dayofweek(ts),
        day_name      |-> dt_day_name(ts),
        is_weekend    |-> is_weekend(ts),
        hour          |-> dt_hour(ts),
        tweet_length  |-> tweet_length(r.tweet.text),
        hashtag_count |-> hashtag_count(r.tweet.text),
        mention_count |-> mention_count(r.tweet.text),
        word_count    |-> word_count(r.tweet.text),
        polarity      |-> TextBlobPolarity(r.tweet.text),
        subjectivity  |-> TextBlobSubjectivity(r.tweet.text)]

Enrich(rows) == [i \in 1..Len(rows) |-> EnrichRow(rows[i])]

\* Line 16 succeeds only on a datetime column with one timezone: every date
\* parses and carries an offset, and the offsets agree (dates with mixed
\* offsets give an object column, which has no .dt; a column without a
\* timezone, the empty column included, is refused by tz_convert).
DateColumnConverts(rows) ==
    /\ Len(rows) > 0
    /\ \A i \in 1..Len(rows) : rows[i].date.kind = "aware"
    /\ \A i, j \in 1..Len(rows) : rows[i].date.off = rows[j].date.off

-----------------------------------------------------------------------------
(* The filter options, lines 47-49, and the dropdowns, lines 57-80 *)

months == 1..12

weekday_options == {"Weekday", "Weekend"}

\* the value of each option of the three dropdowns
MonthOptionValues == {PyInt(month_num) : month_num \in months}
DayOfWeekOptionValues == {PyStr(days_of_week[k]) : k \in 1..Len(days_of_week)}
WeekdayWeekendOptionValues == {PyStr(v) : v \in weekday_options}

\* value=None of every dropdown
InitialSelection ==
    [month |-> PyNone, day_of_week |-> PyNone, weekday_weekend |-> PyNone]

-----------------------------------------------------------------------------
(* update_graphs, lines 109-198 *)

\* lines 112-113
FilterMonth(t, selected_month) ==
    IF Truthy(selected_month)
    THEN SelectSeq(t, LAMBDA r : PyEq(PyInt(r.month), selected_month))
    ELSE t

\* lines 114-115
FilterDayOfWeek(t, selected_day_of_week) ==
    IF Truthy(selected_day_of_week)
    THEN SelectSeq(t, LAMBDA r : PyEq(PyInt(r.day_of_week), selected_day_of_week))
    ELSE t

\* lines 116-120
FilterWeekdayWeekend(t, selected_weekday_weekend) ==
    IF Truthy(selected_weekday_weekend)
    THEN IF PyEq(selected_weekday_weekend, PyStr("Weekday"))
         THEN SelectSeq(t, LAMBDA r : r.is_weekend = "Weekday")
         ELSE SelectSeq(t, LAMBDA r : r.is_weekend = "Weekend")
    ELSE t

\* lines 110-120
filtered_df(t, args) ==
    FilterWeekdayWeekend(
        FilterDayOfWeek(FilterMonth(t, args.month), args.day_of_week),
        args.weekday_weekend)

\* the values of a column
Column(t, c) == {t[i][c] : i \in 1..Len(t)}

RECURSIVE Ascending(_)
Ascending(S) ==
    IF S = {} THEN <<>> ELSE <<Min(S)>> \o Ascending(S \ {Min(S)})

CountWhere(t, c, v) == Cardinality({i \in 1..Len(t) : t[i][c] = v})

\* line 123: groupby('date').size(), keys ascending
daily_tweet_count(t) ==
    LET keys == Ascending(Column(t, "date"))
    IN [k \in 1..Len(keys) |->
            [date |-> keys[k], tweet_count |-> CountWhere(t, "date", keys[k])]]

RECURSIVE Gcd(_, _)
Gcd(a, b) == IF b = 0 THEN a ELSE Gcd(b, a % b)

Abs(n) == IF n < 0 THEN -n ELSE n

\* the exact mean sum/n as a reduced fraction
MeanOf(sum, n) ==
    LET g == Gcd(Abs(sum), n)
    IN [num |-> sum \div g, den |-> n \div g]

RECURSIVE SumColumn(_, _)
SumColumn(t, c) ==
    IF t = <<>> THEN 0 ELSE Head(t)[c] + SumColumn(Tail(t), c)

\* line 124: groupby('country')['polarity'].mean(): one entry per country that
\* has rows
country_sentiment(t) ==
    {[country |-> k,
      avg_sentiment |->
          LET g == SelectSeq(t, LAMBDA r : r.country = k)
          IN MeanOf(SumColumn(g, "polarity"), Len(g))] : k \in Column(t, "country")}

numerical_columns ==
    <<"tweet_length", "hashtag_count", "mention_count", "word_count",
      "polarity", "subjectivity", "hour">>

\* line 126: the columns whose correlations are NaN: every column with fewer
\* than two rows, and any column without variance
corr_nan(t) ==
    {numerical_columns[k] : k \in
        {k \in 1..Len(numerical_columns) :
            Len(t) < 2 \/ Cardinality(Column(t, numerical_columns[k])) < 2}}

\* the distinct values of a column in order of first appearance
RECURSIVE Unique(_, _)
Unique(t, c) ==
    IF t = <<>> THEN <<>>
    ELSE <<Head(t)[c]>> \o Unique(SelectSeq(Tail(t), LAMBDA r : r[c] # Head(t)[c]), c)

\* the keys by descending count, ties in the order given
RECURSIVE ByCountDescending(_, _, _)
ByCountDescending(keys, t, c) ==
    IF keys = <<>> THEN <<>>
    ELSE LET best == CHOOSE k \in 1..Len(keys) :
                       /\ \A j \in 1..Len(keys) :
                              CountWhere(t, c, keys[j]) <= CountWhere(t, c, keys[k])
                       /\ \A j \in 1..(k - 1) :
                              CountWhere(t, c, keys[j]) < CountWhere(t, c, keys[k])
         IN <<keys[best]>>
                \o ByCountDescending(
                       SelectSeq(keys, LAMBDA x : x # keys[best]), t, c)

\* lines 127-128: value_counts() of day_of_week
day_of_week_tweet_count(t) ==
    LET keys == ByCountDescending(Unique(t, "day_of_week"), t, "day_of_week")
    IN [k \in 1..Len(keys) |->
            [day_of_week |-> keys[k],
             tweet_count |-> CountWhere(t, "day_of_week", keys[k])]]

\* attribute keys of a node that a layout step has given a position
NodeAttributesWithLayout(n) == {"pos"}

\* the attribute dictionary a new node gets: from_pandas_edgelist adds edges
\* only and sets no node attribute (edge_attr is not given)
NodeAttributes(n) == {}

\* line 130: one directed edge per row, nodes as the edges bring them in
from_pandas_edgelist(t) ==
    LET edges == {<<t[i].source, t[i].target>> : i \in 1..Len(t)}
        nodes == {e[1] : e \in edges} \cup {e[2] : e \in edges}
    IN [nodes |-> nodes,
        edges |-> edges,
        attrs |-> [n \in nodes |-> NodeAttributes(n)]]

\* names bound at module level, lines 1-109
ModuleNames ==
    {"pd", "datetime", "re", "TextBlob", "go", "px", "nx", "dash", "dcc", "html",
     "Input", "Output", "df", "app", "server", "months", "days_of_week",
     "weekday_options", "update_graphs"}

\* names bound in update_graphs when control reaches line 198
LocalNames ==
    {"selected_month", "selected_day_of_week", "selected_weekday_weekend",
     "filtered_df", "daily_tweet_count", "country_sentiment", "numerical_columns",
     "corr", "day_of_week_tweet_count", "G", "edge_x", "edge_y", "edge_trace",
     "node_x", "node_y", "node_trace", "node_adjacencies", "node_text",
     "association_graph"}

\* the names line 198 reads
ReturnedNames == <<"fig1", "fig2", "fig3", "fig4", "association_graph">>

\* How the statements of lines 130-198 end:
\*   line 136/137: the edge loop reads 'pos' of both ends of the first edge
\*   line 151:     the node loop reads 'pos' of the first node
\*   line 155:     plotly 6.0 removed the colorbar property titleside (line
\*                 169) and go.Scatter validates its arguments: ValueError;
\*                 earlier versions accept it
\*   line 198:     reading an unbound name raises NameError
Ending(G) ==
    IF \E e \in G.edges : "pos" \notin G.attrs[e[1]]
        THEN [status |-> "KeyError", line |-> 136]
    ELSE IF \E e \in G.edges : "pos" \notin G.attrs[e[2]]
        THEN [status |-> "KeyError", line |-> 137]
    ELSE IF \E n \in G.nodes : "pos" \notin G.attrs[n]
        THEN [status |-> "KeyError", line |-> 151]
    ELSE IF plotly6
        THEN [status |-> "ValueError", line |-> 155]
    ELSE IF \E k \in 1..Len(ReturnedNames) :
                ReturnedNames[k] \notin ModuleNames \cup LocalNames
        THEN [status |-> "NameError", line |-> 198]
    ELSE [status |-> "returned", line |-> 198]

\* one run of update_graphs on table t: the locals it computed and its ending
update_graphs(t, args) ==
    LET f == filtered_df(t, args)
        G == from_pandas_edgelist(f)
        e == Ending(G)
    IN [status                  |-> e.status,
        line                    |-> e.line,
        args                    |-> args,
        filtered_df             |-> f,
        daily_tweet_count       |-> daily_tweet_count(f),
        country_sentiment       |-> country_sentiment(f),
        corr_nan                |-> corr_nan(f),
        day_of_week_tweet_count |-> day_of_week_tweet_count(f),
        G                       |-> G,
        figures                 |-> IF e.status = "returned" THEN ReturnedNames ELSE <<>>]

\* before the first run
NoRun ==
    [status |-> "none", line |-> 0, args |-> InitialSelection, filtered_df |-> <<>>,
     daily_tweet_count |-> <<>>, country_sentiment |-> {}, corr_nan |-> {},
     day_of_week_tweet_count |-> <<>>,
     G |-> [nodes |-> {}, edges |-> {}, attrs |-> <<>>], figures |-> <<>>]

-----------------------------------------------------------------------------
(* The CSV files of the model *)

Aware(y, m, d, h, off) == [kind |-> "aware", y |-> y, m |-> m, d |-> d, h |-> h, off |-> off]

\* a date cell that does not parse
Unparseable == [kind |-> "bad", y |-> 0, m |-> 0, d |-> 0, h |-> 0, off |-> 0]

\* "good rain #wet"
good_rain ==
    <<103, 111, 111, 100, 32, 114, 97, 105, 110, 32, 35, 119, 101, 116>>
\* "bad drought @noaa"
bad_drought ==
    <<98, 97, 100, 32, 100, 114, 111, 117, 103, 104, 116, 32, 64, 110, 111,
      97, 97>>
\* "rain"
rain == <<114, 97, 105, 110>>
\* "great #rain #crop"
great_rain ==
    <<103, 114, 101, 97, 116, 32, 35, 114, 97, 105, 110, 32, 35, 99, 114,
      111, 112>>

\* "Dry fields again #drought #farming cc @noaa"
ExampleBody ==
    <<68, 114, 121, 32, 102, 105, 101, 108, 100, 115, 32, 97, 103, 97, 105,
      110, 32, 35, 100, 114, 111, 117, 103, 104, 116, 32, 35, 102, 97, 114,
      109, 105, 110, 103, 32, 99, 99, 32, 64, 110, 111, 97, 97>>

\* The rows CSV files are made of.  2021-05-31 was a Monday, 2021-06-05 a
\* Saturday; 2021-06-01 01:00+02:00 is 2021-05-31 23:00 UTC.  The target of
\* the fourth row is an empty cell.
CsvPool ==
    <<[date |-> Aware(2021, 5, 31, 9, 0), tweet |-> good_rain, country |-> "US",
       source |-> "a", target |-> "b"],
      [date |-> Aware(2021, 5, 31, 17, 0), tweet |-> bad_drought, country |-> "US",
       source |-> "b", target |-> "a"],
      [date |-> Aware(2021, 6, 5, 12, 0), tweet |-> rain, country |-> "IN",
       source |-> "a", target |-> "b"],
      [date |-> Aware(2021, 6, 2, 9, 0), tweet |-> great_rain, country |-> "IN",
       source |-> "c", target |-> "nan"],
      [date |-> Aware(2021, 6, 1, 1, 2), tweet |-> great_rain, country |-> "US",
       source |-> "a", target |-> "a"],
      [date |-> Aware(2021, 6, 2, 1, 2), tweet |-> rain, country |-> "IN",
       source |-> "b", target |-> "c"],
      [date |-> Unparseable, tweet |-> rain, country |-> "US",
       source |-> "a", target |-> "b"]>>

\* the rows of the pool at the indices S, in the order of the pool
Pick(S) == LET idx == Ascending(S) IN [k \in 1..Len(idx) |-> CsvPool[idx[k]]]

CsvFiles ==
    {Pick(S) : S \in {S \in SUBSET (1..Len(CsvPool)) : Cardinality(S) <= MaxRows}}

\* the characters tweet bodies are drawn from: the letter a (97), e with
\* circumflex (234), the digit 1 (49), the underscore (95), the sigils '#'
\* (35) and '@' (64), the space (32), the no-break space (160) and the full
\* stop (46)
Alphabet == {97, 234, 49, 95, 35, 64, 32, 160, 46}

Bodies == UNION {[1..n -> Alphabet] : n \in 0..MaxLen}

TextRow(b) ==
    [date |-> Aware(2021, 5, 31, 9, 0), tweet |-> b, country |-> "US",
     source |-> "a", target |-> "b"]

\* cells the parser's inference treats apart: a missing-value word, a
\* boolean word in mixed casing, an infinity word bare and padded, integers
\* beyond 64 bits, a float with an exponent, a float beyond the range, and
\* exponents that overflow the C int
TypedBodies ==
    {\* "None"
     <<78, 111, 110, 101>>,
     \* "tRuE"
     <<116, 82, 117, 69>>,
     \* "inf"
     <<105, 110, 102>>,
     \* " inf"
     <<32, 105, 110, 102>>,
     \* "99999999999999999999"
     <<57, 57, 57, 57, 57, 57, 57, 57, 57, 57, 57, 57, 57, 57, 57, 57, 57,
       57, 57, 57>>,
     \* "-9223372036854775809"
     <<45, 57, 50, 50, 51, 51, 55, 50, 48, 51, 54, 56, 53, 52, 55, 55, 53,
       56, 48, 57>>,
     \* "1e5"
     <<49, 101, 53>>,
     \* "1e309"
     <<49, 101, 51, 48, 57>>,
     \* "1e2147483648"
     <<49, 101, 50, 49, 52, 55, 52, 56, 51, 54, 52, 56>>,
     \* "100000000000000000e2147483647"
     <<49, 48, 48, 48, 48, 48, 48, 48, 48, 48, 48, 48, 48, 48, 48, 48, 48,
       48, 101, 50, 49, 52, 55, 52, 56, 51, 54, 52, 55>>}

\* columns of two cells that the integer passes treat apart
TypedColumns ==
    {\* "9223372036854775808", "-1"
     <<<<57, 50, 50, 51, 51, 55, 50, 48, 51, 54, 56, 53, 52, 55, 55, 53,
         56, 48, 56>>,
       <<45, 49>>>>,
     \* "-1", "9223372036854775808"
     <<<<45, 49>>,
       <<57, 50, 50, 51, 51, 55, 50, 48, 51, 54, 56, 53, 52, 55, 55, 53,
         56, 48, 56>>>>,
     \* "9223372036854775808", "NA"
     <<<<57, 50, 50, 51, 51, 55, 50, 48, 51, 54, 56, 53, 52, 55, 55, 53,
         56, 48, 56>>,
       <<78, 65>>>>,
     \* "9223372036854775808", "1"
     <<<<57, 50, 50, 51, 51, 55, 50, 48, 51, 54, 56, 53, 52, 55, 55, 53,
         56, 48, 56>>,
       <<49>>>>,
     \* "1.5", "99999999999999999999"
     <<<<49, 46, 53>>,
       <<57, 57, 57, 57, 57, 57, 57, 57, 57, 57, 57, 57, 57, 57, 57, 57,
         57, 57, 57, 57>>>>,
     \* "-9223372036854775809", "rain"
     <<<<45, 57, 50, 50, 51, 51, 55, 50, 48, 51, 54, 56, 53, 52, 55, 55,
         53, 56, 48, 57>>,
       <<114, 97, 105, 110>>>>}

\* the files of one row over all bodies, those of two rows whose second
\* tweet is a word, and those of the typed columns
TextFiles ==
    {<<TextRow(b)>> : b \in Bodies \cup TypedBodies \cup {ExampleBody}}
        \cup {<<TextRow(b), TextRow(rain)>> : b \in Bodies \cup TypedBodies}
        \cup {<<TextRow(c[1]), TextRow(c[2])>> : c \in TypedColumns}

-----------------------------------------------------------------------------
(* The program *)

Init ==
    /\ csv \in {read_csv(f, b) : f \in CsvFiles, b \in PandasBuilds}
    /\ plotly6 \in BOOLEAN
    /\ df = <<>>
    /\ df0 = <<>>
    /\ enrichments = 0
    /\ pc = "import"
    /\ selected = InitialSelection
    /\ out = NoRun

\* lines 14-40 run to the end: the table is enriched and the server starts
Load ==
    /\ pc = "import"
    /\ DateColumnConverts(csv)
    /\ TweetColumnIsStr(csv)
    /\ df' = Enrich(csv)
    /\ df0' = Enrich(csv)
    /\ enrichments' = enrichments + 1
    /\ pc' = "serving"
    /\ UNCHANGED <<csv, plotly6, selected, out>>

\* line 16 raises, or line 27 does: the import is abandoned
LoadFails ==
    /\ pc = "import"
    /\ ~(DateColumnConverts(csv) /\ TweetColumnIsStr(csv))
    /\ pc' = "crashed"
    /\ UNCHANGED <<csv, df, df0, enrichments, plotly6, selected, out>>

\* the table update_graphs leaves in the module's df after filtering with a
\* global assignment
DfFilteredInPlace(t, args) == filtered_df(t, args)

\* the module's df after a run: update_graphs has no global statement and
\* rebinds only its local filtered_df
DfAfterRun(t, args) == t

\* a filtered table kept from the run before
CachedSubset == IF out.status = "none" THEN df ELSE out.filtered_df

\* line 110: df.copy()
CopyOfDf == df

\* one run of the callback (lines 109-198); Dash reports a raised exception
\* to the browser and keeps serving
Run(args) ==
    /\ pc = "serving"
    /\ out' = update_graphs(CopyOfDf, args)
    /\ df' = DfAfterRun(df, args)
    /\ UNCHANGED <<csv, df0, enrichments, pc, plotly6>>

\* the page is (re)loaded: every dropdown shows value=None and Dash runs the
\* callback once
PageLoad ==
    /\ selected' = InitialSelection
    /\ Run(InitialSelection)

\* the month dropdown is set to one of its options, or cleared
ChangeMonth ==
    \E v \in MonthOptionValues \cup {PyNone} :
        /\ v # selected.month
        /\ selected' = [selected EXCEPT !.month = v]
        /\ Run(selected')

\* the day-of-week dropdown is set to one of its options, or cleared
ChangeDayOfWeek ==
    \E v \in DayOfWeekOptionValues \cup {PyNone} :
        /\ v # selected.day_of_week
        /\ selected' = [selected EXCEPT !.day_of_week = v]
        /\ Run(selected')

\* the weekday/weekend dropdown is set to one of its options, or cleared
ChangeWeekdayWeekend ==
    \E v \in WeekdayWeekendOptionValues \cup {PyNone} :
        /\ v # selected.weekday_weekend
        /\ selected' = [selected EXCEPT !.weekday_weekend = v]
        /\ Run(selected')

\* update_graphs called with a day-of-week index 0..6 (its documented domain)
\* in place of the dropdown's value; the dropdowns are not touched
CallWithDayIndex ==
    \E k \in 0..6 :
        /\ Run([selected EXCEPT !.day_of_week = PyInt(k)])
        /\ UNCHANGED selected

Next ==
    \/ Load
    \/ LoadFails
    \/ PageLoad
    \/ ChangeMonth
    \/ ChangeDayOfWeek
    \/ ChangeWeekdayWeekend
    \/ CallWithDayIndex

Spec == Init /\ [][Next]_vars

\* the enrichment alone, over every tweet body of the model
InitText ==
    /\ csv \in {read_csv(f, b) : f \in TextFiles, b \in PandasBuilds}
    /\ plotly6 \in BOOLEAN
    /\ df = <<>>
    /\ df0 = <<>>
    /\ enrichments = 0
    /\ pc = "import"
    /\ selected = InitialSelection
    /\ out = NoRun

NextText == Load \/ LoadFails

SpecText == InitText /\ [][NextText]_vars

-----------------------------------------------------------------------------
(* Claims *)

\* update_graphs has run at least once
HasRun == out.status # "none"

\* the triples of the contract: a month number or unset, a day-of-week index
\* or unset, a label or unset
InContract(args) ==
    /\ args.month \in MonthOptionValues \cup {PyNone}
    /\ args.day_of_week \in {PyInt(k) : k \in 0..6} \cup {PyNone}
    /\ args.weekday_weekend \in WeekdayWeekendOptionValues \cup {PyNone}

\* a row meets every criterion that is present
Matches(r, args) ==
    /\ args.month = PyNone \/ r.month = args.month.i
    /\ args.day_of_week = PyNone \/ r.day_of_week = args.day_of_week.i
    /\ args.weekday_weekend = PyNone \/ r.is_weekend = args.weekday_weekend.s

\* C1: for every triple of the contract the filtered subset is exactly the
\* rows of the enriched table that meet every present criterion; only the
\* unset value imposes no constraint, so index 0 (Monday) narrows too.
C1_FilterIsConjunctionOfPresentCriteria ==
    (HasRun /\ InContract(out.args)) =>
        out.filtered_df = SelectSeq(df0, LAMBDA r : Matches(r, out.args))

\* C2: a run whose criteria match no row completes without raising and
\* returns its figures, built from empty aggregates.
C2_EmptySubsetReturnsEmptyAggregates ==
    (HasRun /\ out.filtered_df = <<>>) =>
        /\ out.status = "returned"
        /\ out.figures # <<>>
        /\ out.daily_tweet_count = <<>>
        /\ out.country_sentiment = {}
        /\ out.day_of_week_tweet_count = <<>>

\* C3: the enriched table is built once, at load, and no run of
\* update_graphs, whatever its triple and however it ends, changes a row or
\* a derived column of it or runs the enrichment again.
C3_TableReadOnlyAfterLoad ==
    pc = "serving" =>
        /\ df = df0
        /\ df = Enrich(csv)
        /\ enrichments = 1

\* a run that narrowed the table and raised has happened, and df is whole
C3_Witness ==
    /\ HasRun
    /\ out.status # "returned"
    /\ Len(out.filtered_df) < Len(df)
    /\ df = df0

\* C4: what a run computes and how it ends depends on the enriched table and
\* the triple alone: after any history of filter changes it is what a first
\* run on the table as enriched gives for that triple.
C4_OutcomeIsFunctionOfTableAndTriple ==
    HasRun => out = update_graphs(df0, out.args)

\* a run on June and Weekend, which only two or more filter changes lead to,
\* that kept some rows and dropped others
C4_Witness ==
    /\ HasRun
    /\ selected.month = PyInt(6)
    /\ selected.weekday_weekend = PyStr("Weekend")
    /\ out.args = selected
    /\ out.filtered_df # <<>>
    /\ Len(out.filtered_df) < Len(df)

\* the rows whose column c equals v
Narrow(t, c, v) == SelectSeq(t, LAMBDA r : r[c] = v)

\* C5: narrowing by month = M and then by day-of-week = D gives the rows that
\* narrowing by D and then by M gives, and both are the subset update_graphs
\* computes for (M, D, unset).
C5_NarrowingCommutesAndIsTheSubset ==
    (/\ HasRun
     /\ out.args.month \in MonthOptionValues
     /\ out.args.day_of_week \in {PyInt(k) : k \in 0..6}
     /\ out.args.weekday_weekend = PyNone) =>
        LET M == out.args.month.i
            D == out.args.day_of_week.i
            md == Narrow(Narrow(df, "month", M), "day_of_week", D)
            dm == Narrow(Narrow(df, "day_of_week", D), "month", M)
        IN /\ md = dm
           /\ out.filtered_df = md

\* C6: the daily tweet count has one entry per calendar date of the filtered
\* subset, each counting the rows of that date, in ascending date order; two
\* tweets of one day at different hours are counted in one entry.
C6_DailyCountIsPerCalendarDate ==
    HasRun =>
        LET f == out.filtered_df
            d == out.daily_tweet_count
        IN /\ Len(d) = Cardinality({CalendarDay(f[i].date) : i \in 1..Len(f)})
           /\ \A k \in 1..Len(d) :
                  d[k].tweet_count =
                      Cardinality({i \in 1..Len(f) :
                          CalendarDay(f[i].date) = CalendarDay(d[k].date)})
           /\ \A k \in 1..(Len(d) - 1) : d[k].date < d[k + 1].date

\* the number of whitespace-delimited tokens of x: the positions where a
\* token starts
TokenCount(x) ==
    Cardinality({i \in 1..Len(x) : ~IsSpace(x[i]) /\ (i = 1 \/ IsSpace(x[i - 1]))})

\* C7 as stated: word_count is the number of whitespace-delimited tokens of
\* the body, and the example body has word_count 6.
C7_WordCountExampleIsSix ==
    pc = "serving" =>
        \A i \in 1..Len(df) :
            /\ df[i].word_count = TokenCount(df[i].tweet)
            /\ df[i].tweet = ExampleBody => df[i].word_count = 6

\* C7 (amended): word_count is the number of whitespace-delimited tokens of
\* the body, and the example body has word_count 7.
C7_WordCountIsTokenCount ==
    pc = "serving" =>
        \A i \in 1..Len(df) :
            /\ df[i].word_count = TokenCount(df[i].tweet)
            /\ df[i].tweet = ExampleBody => df[i].word_count = 7

\* the example body has been enriched and has seven tokens
C7_Witness ==
    /\ pc = "serving"
    /\ \E i \in 1..Len(df) : df[i].tweet = ExampleBody /\ df[i].word_count = 7

\* the number of places of x where the sigil is immediately followed by a
\* word character
SigilCount(sigil, x) ==
    Cardinality({i \in 1..(Len(x) - 1) : x[i] = sigil /\ IsWordChar(x[i + 1])})

\* bodies with the counts that lines 30 and 33 give when run on them
SigilExamples ==
    {\* "#\u00ea"
     [body |-> <<35, 234>>, hashtags |-> 1, mentions |-> 0],
     \* "#_"
     [body |-> <<35, 95>>, hashtags |-> 1, mentions |-> 0],
     \* "#1"
     [body |-> <<35, 49>>, hashtags |-> 1, mentions |-> 0],
     \* "#."
     [body |-> <<35, 46>>, hashtags |-> 0, mentions |-> 0],
     \* "# a"
     [body |-> <<35, 32, 97>>, hashtags |-> 0, mentions |-> 0],
     \* "#\u00a0a"
     [body |-> <<35, 160, 97>>, hashtags |-> 0, mentions |-> 0],
     \* "#a#a"
     [body |-> <<35, 97, 35, 97>>, hashtags |-> 2, mentions |-> 0],
     \* "##a"
     [body |-> <<35, 35, 97>>, hashtags |-> 1, mentions |-> 0],
     \* "#a@a"
     [body |-> <<35, 97, 64, 97>>, hashtags |-> 1, mentions |-> 1],
     \* "@\u00ea"
     [body |-> <<64, 234>>, hashtags |-> 0, mentions |-> 1],
     \* "@a@a"
     [body |-> <<64, 97, 64, 97>>, hashtags |-> 0, mentions |-> 2],
     \* "a@a."
     [body |-> <<97, 64, 97, 46>>, hashtags |-> 0, mentions |-> 1],
     \* "#@a"
     [body |-> <<35, 64, 97>>, hashtags |-> 0, mentions |-> 1],
     \* "@#a"
     [body |-> <<64, 35, 97>>, hashtags |-> 1, mentions |-> 0]}

\* C8: hashtag_count (mention_count) is the number of non-overlapping
\* occurrences of '#' ('@') immediately followed by one or more word
\* characters, a natural number at most the body's length; the example body
\* has hashtag_count 2 and mention_count 1.
C8_SigilCounts ==
    pc = "serving" =>
        \A i \in 1..Len(df) :
            /\ df[i].hashtag_count = SigilCount(35, df[i].tweet)
            /\ df[i].mention_count = SigilCount(64, df[i].tweet)
            /\ df[i].hashtag_count \in 0..df[i].tweet_length
            /\ df[i].mention_count \in 0..df[i].tweet_length
            /\ df[i].tweet_length = Len(df[i].tweet)
            /\ df[i].tweet = ExampleBody =>
                   df[i].hashtag_count = 2 /\ df[i].mention_count = 1
            /\ \A e \in SigilExamples :
                   df[i].tweet = e.body =>
                       /\ df[i].hashtag_count = e.hashtags
                       /\ df[i].mention_count = e.mentions

\* the example body has been enriched: two hashtags, one mention
C8_Witness ==
    /\ pc = "serving"
    /\ \E i \in 1..Len(df) :
           /\ df[i].tweet = ExampleBody
           /\ df[i].hashtag_count = 2
           /\ df[i].mention_count = 1

\* C9: a run whose graph has a node fails reading 'pos' of a node and returns
\* no figures; only a run with an empty graph gets past the edge and node
\* loops.
C9_NonEmptyGraphFailsOnPos ==
    HasRun =>
        /\ out.G.nodes # {} =>
               /\ out.status = "KeyError"
               /\ out.line \in {136, 137, 151}
               /\ out.figures = <<>>
        /\ out.status # "KeyError" => out.G.nodes = {} /\ out.G.edges = {}

\* a run built a graph with nodes and failed on 'pos'
C9_Witness ==
    /\ HasRun
    /\ out.G.nodes # {}
    /\ out.status = "KeyError"

\* the run was made with the values the dropdowns hold
FromDropdowns == HasRun /\ out.args = selected

\* C10: every value the dropdowns deliver lies in the domain of the column it
\* is compared with (a month number, a day-of-week index 0..6, a label), so
\* selecting only a day of the week on which a tweet was posted gives a
\* non-empty subset.
C10_DropdownValuesMatchColumns ==
    FromDropdowns =>
        /\ out.args.month \in {PyInt(m) : m \in 1..12} \cup {PyNone}
        /\ out.args.day_of_week \in {PyInt(k) : k \in 0..6} \cup {PyNone}
        /\ out.args.weekday_weekend \in {PyStr("Weekday"), PyStr("Weekend"), PyNone}
        /\ (/\ out.args.month = PyNone
            /\ out.args.weekday_weekend = PyNone
            /\ \E i \in 1..Len(df) :
                   out.args.day_of_week \in
                       {PyInt(df[i].day_of_week), PyStr(df[i].day_name)}) =>
               out.filtered_df # <<>>

====
